---- MODULE Spec2Model ----
(***************************************************************************)
(* A model of the CV screener: the CVScreenerRAG index lifecycle and query *)
(* methods (src/utils/rag.py), the Streamlit front end that caches one     *)
(* instance per process and serves chat queries (src/app.py), the preview  *)
(* projection of retrieved chunks (_extract_sources) and the batch CV      *)
(* generator (src/generate_cvs.py).                                        *)
(***************************************************************************)
EXTENDS Integers, Sequences, FiniteSets, TLC

\* ------------------------------------------------------------------ bounds
NumSessions == 2      \* Streamlit sessions (script threads) of one process
NumCallers == 1       \* threads that call the CVScreenerRAG methods directly
NumStoreFiles == 2    \* files storage_context.persist writes, one after another
NumBatches == 2       \* embedding batches of VectorStoreIndex.from_documents
MaxInitRuns == 2      \* executions of init_rag's body per process lifetime
MaxCrashes == 1       \* process crashes followed by a restart
MaxChatInputs == 2    \* chat inputs per process lifetime, over all sessions
MaxReinits == 1       \* repeated load_or_create_index calls on a READY instance
TextSlack == 3        \* chunk text lengths within this of 0 and of the cut
MaxPad == 2           \* leading, and trailing, blanks of a chunk text
MaxNodes == 1         \* source nodes of a response
\* the generator reads both from the environment (lines 14-15: 5 and 30 when
\* unset); they are kept small here
MAX_CONCURRENT == 2
CV_TO_GENERATE == 4

\* ------------------------------------------------------- program constants
DefaultTopK == 5
PreviewLen == 200

Sessions == 1..NumSessions
Callers == (NumSessions + 1)..(NumSessions + NumCallers)
Threads == Sessions \cup Callers

Questions == {"q1"}
\* system_prompt arguments of custom_query: None, the empty string, a template
SystemPrompts == {"None", "", "t1"}
FailureMessage == "I couldn't complete that query due to an internal error."

VARIABLES
    disk,             \* persist_dir: [exists, files, corrupt]
    rag,              \* the current CVScreenerRAG: [index, query_engine, top_k]
    inst,             \* serial number of the current instance (0: none yet)
    next_obj,         \* index objects created so far in this process
    loc_pc,           \* position of load_or_create_index on the current instance
    loc_branch,       \* "load" or "build": the branch taken at line 106
    loc_batches,      \* batches embedded so far by from_documents
    stages,           \* the stages the current invocation has started, in order
    disk0,            \* the disk as the current invocation found it
    cache,            \* st.cache_resource holds init_rag's value
    cache_lock,       \* the session computing init_rag (0: nobody)
    sess_rag,         \* "rag" in st.session_state, per session
    messages,         \* st.session_state.messages, per session
    call,             \* per thread, the query call in progress
    result,           \* per thread, what its last call on the current instance gave
    init_runs,        \* times init_rag's body ran in this process
    crashes,          \* process crashes so far
    crash_in_persist, \* some crash hit a process inside persist
    reinits,          \* repeated load_or_create_index calls so far
    pv_nodes,         \* the texts of response.source_nodes
    pv_sources,       \* _extract_sources: the previews appended so far
    task_pc,          \* generator: per task, where generate_one stands
    sem_value,        \* generator: the semaphore's free permits
    sem_waiters,      \* generator: tasks waiting for a permit, in order
    finished,         \* generator: finished tasks as_completed has yet to yield
    ok_paths,         \* generator: main's ok_paths
    errors,           \* generator: main's errors
    main_pc           \* generator: where main stands

ragVars == <<disk, rag, inst, next_obj, loc_pc, loc_branch, loc_batches, stages,
             disk0, cache, cache_lock, sess_rag, messages, call, result,
             init_runs, crashes, crash_in_persist, reinits>>

previewVars == <<pv_nodes, pv_sources>>

genVars == <<task_pc, sem_value, sem_waiters, finished, ok_paths, errors, main_pc>>

vars == <<ragVars, previewVars, genVars>>

\* ------------------------------------------------------------------ values
\* self.query_engine = None
NoEngine == [index |-> 0, template |-> "None", top_k |-> 0]

\* CVScreenerRAG.__init__: index and query_engine are None (index 0: None)
NewRag == [index |-> 0, query_engine |-> NoEngine, top_k |-> DefaultTopK]

NoDisk == [exists |-> FALSE, files |-> 0, corrupt |-> FALSE]

IdleCall == [pc |-> "idle", kind |-> "", q |-> "", prompt |-> "None"]

NoResult == [status |-> "none", kind |-> "", q |-> "",
             prompt |-> "None", index |-> 0, template |-> "None", top_k |-> 0,
             net |-> 0, sources |-> <<>>]

\* os.path.exists(self.persist_dir)
DiskExists(d) == d.exists

\* every file of the store is there
DiskComplete(d) == d.exists /\ d.files = NumStoreFiles

\* load_index_from_storage returns an index rather than raising
DiskLoadable(d) == DiskComplete(d) /\ ~d.corrupt

\* `if system_prompt:` : None and the empty string are falsy
Truthy(p) == p \notin {"None", ""}

\* index.as_query_engine(similarity_top_k=..., [text_qa_template=...])
AsQueryEngine(idx, tpl, k) == [index |-> idx, template |-> tpl, top_k |-> k]

\* ------------------------------------------------- load_or_create_index
\* line 106: the branch on os.path.exists(self.persist_dir)
LocCheck ==
    /\ loc_pc = "L106"
    /\ IF DiskExists(disk)
          THEN /\ loc_pc' = "load"
               /\ loc_branch' = "load"
               /\ stages' = <<"load">>
          ELSE /\ loc_pc' = "ingest"
               /\ loc_branch' = "build"
               /\ stages' = <<"ingest">>
    /\ UNCHANGED <<disk, rag, inst, next_obj, loc_batches, disk0, cache,
                   cache_lock, sess_rag, messages, call, result, init_runs,
                   crashes, crash_in_persist, reinits>>

\* lines 108-109: the stored index loads and is assigned to self.index
LoadOk ==
    /\ loc_pc = "load"
    /\ DiskLoadable(disk)
    /\ next_obj' = next_obj + 1
    /\ rag' = [rag EXCEPT !.index = next_obj + 1]
    /\ loc_pc' = "L131"
    /\ UNCHANGED <<disk, inst, loc_branch, loc_batches, stages, disk0, cache,
                   cache_lock, sess_rag, messages, call, result, init_runs,
                   crashes, crash_in_persist, reinits>>

\* LoadFail as a silent rebuild: a failed load falls through to the build branch
LoadFail_rebuilds ==
    /\ loc_pc = "load"
    /\ ~DiskLoadable(disk)
    /\ loc_pc' = "ingest"
    /\ stages' = Append(stages, "ingest")
    /\ UNCHANGED <<disk, rag, inst, next_obj, loc_branch, loc_batches, disk0,
                   cache, cache_lock, sess_rag, messages, call, result,
                   init_runs, crashes, crash_in_persist, reinits>>

\* lines 108-109: the load raises; the exception leaves load_or_create_index
LoadFail ==
    /\ loc_pc = "load"
    /\ ~DiskLoadable(disk)
    /\ loc_pc' = "raised"
    /\ UNCHANGED <<disk, rag, inst, next_obj, loc_branch, loc_batches, stages,
                   disk0, cache, cache_lock, sess_rag, messages, call, result,
                   init_runs, crashes, crash_in_persist, reinits>>

\* lines 113-116: SimpleDirectoryReader(...).load_data() returns the documents
IngestOk ==
    /\ loc_pc = "ingest"
    /\ loc_pc' = "build"
    /\ loc_batches' = 0
    /\ stages' = Append(stages, "build")
    /\ UNCHANGED <<disk, rag, inst, next_obj, loc_branch, disk0, cache,
                   cache_lock, sess_rag, messages, call, result, init_runs,
                   crashes, crash_in_persist, reinits>>

\* lines 113-116: reading the CVs raises
IngestFail ==
    /\ loc_pc = "ingest"
    /\ loc_pc' = "raised"
    /\ UNCHANGED <<disk, rag, inst, next_obj, loc_branch, loc_batches, stages,
                   disk0, cache, cache_lock, sess_rag, messages, call, result,
                   init_runs, crashes, crash_in_persist, reinits>>

\* lines 121-124: one more batch is embedded; after the last one from_documents
\* returns and its value is assigned to self.index
EmbedBatchOk ==
    /\ loc_pc = "build"
    /\ loc_batches' = loc_batches + 1
    /\ IF loc_batches + 1 >= NumBatches
          THEN /\ next_obj' = next_obj + 1
               /\ rag' = [rag EXCEPT !.index = next_obj + 1]
               /\ loc_pc' = "persist"
               /\ stages' = Append(stages, "persist")
          ELSE UNCHANGED <<next_obj, rag, loc_pc, stages>>
    /\ UNCHANGED <<disk, inst, loc_branch, disk0, cache, cache_lock, sess_rag,
                   messages, call, result, init_runs, crashes,
                   crash_in_persist, reinits>>

\* lines 121-124: an embedding call raises inside from_documents, before the
\* assignment to self.index
EmbedBatchFail ==
    /\ loc_pc = "build"
    /\ loc_pc' = "raised"
    /\ UNCHANGED <<disk, rag, inst, next_obj, loc_branch, loc_batches, stages,
                   disk0, cache, cache_lock, sess_rag, messages, call, result,
                   init_runs, crashes, crash_in_persist, reinits>>

\* line 127: persist writes the next file of the store straight into
\* persist_dir (the directory is made with the first one)
PersistWrite ==
    /\ loc_pc = "persist"
    /\ disk' = [exists |-> TRUE, files |-> disk.files + 1, corrupt |-> FALSE]
    /\ loc_pc' = IF disk.files + 1 >= NumStoreFiles THEN "L131" ELSE "persist"
    /\ UNCHANGED <<rag, inst, next_obj, loc_branch, loc_batches, stages, disk0,
                   cache, cache_lock, sess_rag, messages, call, result,
                   init_runs, crashes, crash_in_persist, reinits>>

\* PersistFail with the error swallowed: the query engine is made all the same
PersistFail_swallowed ==
    /\ loc_pc = "persist"
    /\ loc_pc' = "L131"
    /\ UNCHANGED <<disk, rag, inst, next_obj, loc_branch, loc_batches, stages,
                   disk0, cache, cache_lock, sess_rag, messages, call, result,
                   init_runs, crashes, crash_in_persist, reinits>>

\* line 127: persist raises (before or between its writes)
PersistFail ==
    /\ loc_pc = "persist"
    /\ loc_pc' = "raised"
    /\ UNCHANGED <<disk, rag, inst, next_obj, loc_branch, loc_batches, stages,
                   disk0, cache, cache_lock, sess_rag, messages, call, result,
                   init_runs, crashes, crash_in_persist, reinits>>

\* lines 131-134: self.query_engine = self.index.as_query_engine(...)
MakeQueryEngine ==
    /\ loc_pc = "L131"
    /\ rag' = [rag EXCEPT !.query_engine =
                              AsQueryEngine(rag.index, "default", rag.top_k)]
    /\ loc_pc' = "returned"
    /\ UNCHANGED <<disk, inst, next_obj, loc_branch, loc_batches, stages,
                   disk0, cache, cache_lock, sess_rag, messages, call, result,
                   init_runs, crashes, crash_in_persist, reinits>>

LoadOrCreateStep ==
    \/ LocCheck
    \/ LoadOk
    \/ LoadFail
    \/ IngestOk
    \/ IngestFail
    \/ EmbedBatchOk
    \/ EmbedBatchFail
    \/ PersistWrite
    \/ PersistFail
    \/ MakeQueryEngine

\* ------------------------------------------------------ query, custom_query
\* the pc of a thread once its call has returned or raised: a session goes on
\* in the chat handler, a direct caller is done
AfterCall(t) == IF t \in Sessions THEN "reply" ELSE "idle"

\* QueryEnter testing self.index instead of self.query_engine
QueryEnter_testsIndex(t, kind, q, p) ==
    /\ call[t].pc = "idle"
    /\ IF rag.index = 0
          THEN /\ call' = [call EXCEPT ![t] = [IdleCall EXCEPT !.pc = AfterCall(t)]]
               /\ result' = [result EXCEPT ![t] =
                      [NoResult EXCEPT !.status = "not_ready", !.kind = kind,
                                       !.q = q, !.prompt = p]]
          ELSE /\ call' = [call EXCEPT ![t] =
                      [pc |-> "run", kind |-> kind, q |-> q, prompt |-> p]]
               /\ UNCHANGED result

\* lines 171-172 and 194-195: the call is entered and self.query_engine is
\* tested; None raises ValueError at once
QueryEnter(t, kind, q, p) ==
    /\ call[t].pc = "idle"
    /\ IF rag.query_engine = NoEngine
          THEN /\ call' = [call EXCEPT ![t] = [IdleCall EXCEPT !.pc = AfterCall(t)]]
               /\ result' = [result EXCEPT ![t] =
                      [NoResult EXCEPT !.status = "not_ready", !.kind = kind,
                                       !.q = q, !.prompt = p]]
          ELSE /\ call' = [call EXCEPT ![t] =
                      [pc |-> "run", kind |-> kind, q |-> q, prompt |-> p]]
               /\ UNCHANGED result

\* The engine a call past the test runs on. custom_query with a truthy
\* system_prompt (lines 197-217) builds a local engine from self.index and
\* self.top_k; query (line 175) and custom_query without one (line 220) read
\* self.query_engine
EngineOf(c) ==
    IF c.kind = "custom" /\ Truthy(c.prompt)
       THEN AsQueryEngine(rag.index, c.prompt, rag.top_k)
       ELSE rag.query_engine

\* What engine.query gives: the question is embedded (one network call), the
\* answer synthesised (a second one); either may raise. An engine over None
\* raises AttributeError before any network call.
QueryOutcome(c, eng, outcome) ==
    [status |-> IF eng.index # 0 /\ outcome = "ok" THEN "ok" ELSE "failed",
     kind |-> c.kind, q |-> c.q, prompt |-> c.prompt,
     index |-> eng.index, template |-> eng.template, top_k |-> eng.top_k,
     net |-> IF eng.index = 0 THEN 0 ELSE IF outcome = "embed_fail" THEN 1 ELSE 2,
     sources |-> IF eng.index # 0 /\ outcome = "ok" THEN <<eng.index>> ELSE <<>>]

\* QueryRun keeping the templated engine: self.query_engine = qe
QueryRun_keepsEngine(t) ==
    /\ call[t].pc = "run"
    /\ \E outcome \in {"ok", "embed_fail", "synth_fail"} :
          result' = [result EXCEPT ![t] =
                        QueryOutcome(call[t], EngineOf(call[t]), outcome)]
    /\ rag' = [rag EXCEPT !.query_engine = EngineOf(call[t])]
    /\ call' = [call EXCEPT ![t] = [IdleCall EXCEPT !.pc = AfterCall(t)]]
    /\ UNCHANGED <<disk, inst, next_obj, loc_pc, loc_branch, loc_batches,
                   stages, disk0, cache, cache_lock, sess_rag, messages,
                   init_runs, crashes, crash_in_persist, reinits>>

\* QueryRun dropping the engine when the query raises
QueryRun_dropsEngine(t) ==
    /\ call[t].pc = "run"
    /\ \E outcome \in {"ok", "embed_fail", "synth_fail"} :
          /\ result' = [result EXCEPT ![t] =
                           QueryOutcome(call[t], EngineOf(call[t]), outcome)]
          /\ rag' = IF outcome = "ok" THEN rag
                                     ELSE [rag EXCEPT !.query_engine = NoEngine]
    /\ call' = [call EXCEPT ![t] = [IdleCall EXCEPT !.pc = AfterCall(t)]]
    /\ UNCHANGED <<disk, inst, next_obj, loc_pc, loc_branch, loc_batches,
                   stages, disk0, cache, cache_lock, sess_rag, messages,
                   init_runs, crashes, crash_in_persist, reinits>>

\* lines 174-177 and 197-223: the engine is queried and the answer and its
\* sources returned, or the engine's exception leaves the method. No field of
\* self is assigned.
QueryRun(t) ==
    /\ call[t].pc = "run"
    /\ \E outcome \in {"ok", "embed_fail", "synth_fail"} :
          result' = [result EXCEPT ![t] =
                        QueryOutcome(call[t], EngineOf(call[t]), outcome)]
    /\ call' = [call EXCEPT ![t] = [IdleCall EXCEPT !.pc = AfterCall(t)]]
    /\ UNCHANGED <<disk, rag, inst, next_obj, loc_pc, loc_branch, loc_batches,
                   stages, disk0, cache, cache_lock, sess_rag, messages,
                   init_runs, crashes, crash_in_persist, reinits>>

\* a thread holding the instance calls query(question)
ApiQuery(t) ==
    /\ t \in Callers
    /\ inst > 0
    /\ \E q \in Questions : QueryEnter(t, "query", q, "None")
    /\ UNCHANGED <<disk, rag, inst, next_obj, loc_pc, loc_branch, loc_batches,
                   stages, disk0, cache, cache_lock, sess_rag, messages,
                   init_runs, crashes, crash_in_persist, reinits>>

\* a thread holding the instance calls custom_query(question, system_prompt)
ApiCustomQuery(t) ==
    /\ t \in Callers
    /\ inst > 0
    /\ \E q \in Questions, p \in SystemPrompts : QueryEnter(t, "custom", q, p)
    /\ UNCHANGED <<disk, rag, inst, next_obj, loc_pc, loc_branch, loc_batches,
                   stages, disk0, cache, cache_lock, sess_rag, messages,
                   init_runs, crashes, crash_in_persist, reinits>>

\* test_rag, lines 236-237 (and init_rag, lines 38-39): a CVScreenerRAG is
\* constructed and load_or_create_index called on it, once
StartRag ==
    /\ loc_pc \in {"none", "raised"}
    /\ cache_lock = 0
    /\ init_runs < MaxInitRuns
    /\ init_runs' = init_runs + 1
    /\ rag' = NewRag
    /\ inst' = inst + 1
    /\ loc_pc' = "L106"
    /\ loc_branch' = ""
    /\ loc_batches' = 0
    /\ stages' = <<>>
    /\ disk0' = disk
    /\ result' = [t \in Threads |-> NoResult]
    /\ UNCHANGED <<disk, next_obj, cache, cache_lock, sess_rag, messages, call,
                   crashes, crash_in_persist, reinits>>

\* ------------------------------------------------------------------ app.py
\* lines 35-46, cache miss: the session takes st.cache_resource's compute lock
\* and runs init_rag's body: a new CVScreenerRAG, then load_or_create_index
InitRagStart(s) ==
    /\ ~sess_rag[s]
    /\ call[s].pc = "idle"
    /\ ~cache
    /\ cache_lock = 0
    /\ init_runs < MaxInitRuns
    /\ cache_lock' = s
    /\ init_runs' = init_runs + 1
    /\ rag' = NewRag
    /\ inst' = inst + 1
    /\ loc_pc' = "L106"
    /\ loc_branch' = ""
    /\ loc_batches' = 0
    /\ stages' = <<>>
    /\ disk0' = disk
    /\ result' = [t \in Threads |-> NoResult]
    /\ UNCHANGED <<disk, next_obj, cache, sess_rag, messages, call, crashes,
                   crash_in_persist, reinits>>

\* lines 35-46, cache hit: init_rag's cached value goes to session_state.rag
CacheHit(s) ==
    /\ ~sess_rag[s]
    /\ call[s].pc = "idle"
    /\ cache
    /\ sess_rag' = [sess_rag EXCEPT ![s] = TRUE]
    /\ UNCHANGED <<disk, rag, inst, next_obj, loc_pc, loc_branch, loc_batches,
                   stages, disk0, cache, cache_lock, messages, call, result,
                   init_runs, crashes, crash_in_persist, reinits>>

\* lines 39-40 and 46: load_or_create_index returned; init_rag returns rag,
\* the cache keeps it, the lock is released, session_state.rag is set
InitRagReturn(s) ==
    /\ cache_lock = s
    /\ loc_pc = "returned"
    /\ cache' = TRUE
    /\ cache_lock' = 0
    /\ sess_rag' = [sess_rag EXCEPT ![s] = TRUE]
    /\ UNCHANGED <<disk, rag, inst, next_obj, loc_pc, loc_branch, loc_batches,
                   stages, disk0, messages, call, result, init_runs, crashes,
                   crash_in_persist, reinits>>

\* line 39: load_or_create_index raised; the exception leaves init_rag, nothing
\* is cached, the lock is released and the script run ends with the error
InitRagRaise(s) ==
    /\ cache_lock = s
    /\ loc_pc = "raised"
    /\ cache_lock' = 0
    /\ UNCHANGED <<disk, rag, inst, next_obj, loc_pc, loc_branch, loc_batches,
                   stages, disk0, cache, sess_rag, messages, call, result,
                   init_runs, crashes, crash_in_persist, reinits>>

\* the chat inputs the process has taken so far
RECURSIVE ChatInputs(_)
ChatInputs(S) ==
    IF S = {} THEN 0
    ELSE LET s == CHOOSE x \in S : TRUE
         IN  Cardinality({i \in 1..Len(messages[s]) : messages[s][i].role = "user"})
                 + ChatInputs(S \ {s})

UserMessage(q) ==
    [role |-> "user", content |-> [text |-> q, index |-> 0, template |-> ""],
     sources |-> <<>>]

\* lines 125-131 and 152-154: the assistant message the handler saves: the
\* answer and sources query returned, or, when query raised, the fixed failure
\* text and no sources
AssistantMessage(res) ==
    IF res.status = "ok"
       THEN [role |-> "assistant",
             content |-> [text |-> res.q, index |-> res.index,
                          template |-> res.template],
             sources |-> res.sources]
       ELSE [role |-> "assistant",
             content |-> [text |-> FailureMessage, index |-> 0, template |-> ""],
             sources |-> <<>>]

\* lines 113-126: a chat input: the user message is saved and
\* st.session_state.rag.query(user_input) is called
ChatInput(s) ==
    /\ sess_rag[s]
    /\ ChatInputs(Sessions) < MaxChatInputs
    /\ \E q \in Questions :
          /\ messages' = [messages EXCEPT ![s] = Append(@, UserMessage(q))]
          /\ QueryEnter(s, "query", q, "None")
    /\ UNCHANGED <<disk, rag, inst, next_obj, loc_pc, loc_branch, loc_batches,
                   stages, disk0, cache, cache_lock, sess_rag, init_runs,
                   crashes, crash_in_persist, reinits>>

\* lines 127-155: query returned or raised; the assistant message is saved
ChatReply(s) ==
    /\ call[s].pc = "reply"
    /\ messages' = [messages EXCEPT ![s] = Append(@, AssistantMessage(result[s]))]
    /\ call' = [call EXCEPT ![s] = IdleCall]
    /\ UNCHANGED <<disk, rag, inst, next_obj, loc_pc, loc_branch, loc_batches,
                   stages, disk0, cache, cache_lock, sess_rag, result,
                   init_runs, crashes, crash_in_persist, reinits>>

\* ------------------------------------------------------------ the process
\* The process dies where it stands and is started again: everything in memory
\* is gone, persist_dir is what the dead process left
Crash ==
    /\ crashes < MaxCrashes
    /\ crashes' = crashes + 1
    /\ crash_in_persist' = (crash_in_persist \/ loc_pc = "persist")
    /\ rag' = NewRag
    /\ inst' = 0
    /\ next_obj' = 0
    /\ loc_pc' = "none"
    /\ loc_branch' = ""
    /\ loc_batches' = 0
    /\ stages' = <<>>
    /\ disk0' = disk
    /\ cache' = FALSE
    /\ cache_lock' = 0
    /\ sess_rag' = [s \in Sessions |-> FALSE]
    /\ messages' = [s \in Sessions |-> <<>>]
    /\ call' = [t \in Threads |-> IdleCall]
    /\ result' = [t \in Threads |-> NoResult]
    /\ init_runs' = 0
    /\ UNCHANGED <<disk, reinits>>

\* load_or_create_index is called again on an instance that is READY
Reinit ==
    /\ loc_pc = "returned"
    /\ reinits < MaxReinits
    /\ reinits' = reinits + 1
    /\ loc_pc' = "L106"
    /\ loc_branch' = ""
    /\ loc_batches' = 0
    /\ stages' = <<>>
    /\ disk0' = disk
    /\ UNCHANGED <<disk, rag, inst, next_obj, cache, cache_lock, sess_rag,
                   messages, call, result, init_runs, crashes, crash_in_persist>>

\* persist_dir at process start: absent, a complete store, or a complete store
\* that does not load
InitialDisks ==
    {NoDisk} \cup {[exists |-> TRUE, files |-> NumStoreFiles, corrupt |-> c] :
                      c \in BOOLEAN}

RagInit ==
    /\ disk \in InitialDisks
    /\ rag = NewRag
    /\ inst = 0
    /\ next_obj = 0
    /\ loc_pc = "none"
    /\ loc_branch = ""
    /\ loc_batches = 0
    /\ stages = <<>>
    /\ disk0 = disk
    /\ cache = FALSE
    /\ cache_lock = 0
    /\ sess_rag = [s \in Sessions |-> FALSE]
    /\ messages = [s \in Sessions |-> <<>>]
    /\ call = [t \in Threads |-> IdleCall]
    /\ result = [t \in Threads |-> NoResult]
    /\ init_runs = 0
    /\ crashes = 0
    /\ crash_in_persist = FALSE
    /\ reinits = 0

\* ---------------------------------------------------------- _extract_sources
Marker == <<".", ".", ".">>

IsSpace(c) == c = " "

RECURSIVE LStrip(_)
LStrip(s) == IF s # <<>> /\ IsSpace(Head(s)) THEN LStrip(Tail(s)) ELSE s

RECURSIVE RStrip(_)
RStrip(s) ==
    IF s # <<>> /\ IsSpace(s[Len(s)]) THEN RStrip(SubSeq(s, 1, Len(s) - 1)) ELSE s

\* str.strip()
Strip(s) == LStrip(RStrip(s))

\* s[:n]
Slice(s, n) == SubSeq(s, 1, IF Len(s) < n THEN Len(s) ELSE n)

\* lines 151 and 156: the preview of one node's text
PreviewText(text) ==
    LET t == Strip(Slice(text, PreviewLen))
    IN  IF t # <<>> THEN t \o Marker ELSE <<>>

\* lines 147-158: the loop body, for the next source node
ExtractSource ==
    /\ Len(pv_sources) < Len(pv_nodes)
    /\ pv_sources' = Append(pv_sources, PreviewText(pv_nodes[Len(pv_sources) + 1]))
    /\ UNCHANGED <<pv_nodes, ragVars, genVars>>

\* a chunk text of n characters, the first lead and the last trail of them blank
TextOf(n, lead, trail) ==
    [i \in 1..n |-> IF i <= lead \/ i > n - trail THEN " " ELSE "a"]

TextLens == (0..TextSlack) \cup ((PreviewLen - TextSlack)..(PreviewLen + TextSlack))

ChunkTexts == {TextOf(n, l, r) : n \in TextLens, l \in 0..MaxPad, r \in 0..MaxPad}

RECURSIVE SeqsUpTo(_, _)
SeqsUpTo(S, n) ==
    IF n = 0 THEN {<<>>}
    ELSE LET shorter == SeqsUpTo(S, n - 1)
         IN  shorter \cup {Append(q, x) : q \in shorter, x \in S}

PreviewIdle == pv_nodes = <<>> /\ pv_sources = <<>>

\* ------------------------------------------------------------ generate_cvs
Tasks == 1..CV_TO_GENERATE

\* line 20, entering `async with semaphore`: a free permit and nobody waiting
\* gives the permit at once, otherwise the task queues up
TaskAcquire(i) ==
    /\ task_pc[i] = "created"
    /\ IF sem_value > 0 /\ sem_waiters = <<>>
          THEN /\ sem_value' = sem_value - 1
               /\ task_pc' = [task_pc EXCEPT ![i] = "running"]
               /\ UNCHANGED sem_waiters
          ELSE /\ sem_waiters' = Append(sem_waiters, i)
               /\ task_pc' = [task_pc EXCEPT ![i] = "waiting"]
               /\ UNCHANGED sem_value
    /\ UNCHANGED <<finished, ok_paths, errors, main_pc, ragVars, previewVars>>

\* line 20: the first waiter is woken by a release and takes the permit
TaskWake(i) ==
    /\ task_pc[i] = "waiting"
    /\ sem_waiters # <<>>
    /\ Head(sem_waiters) = i
    /\ sem_value > 0
    /\ sem_value' = sem_value - 1
    /\ sem_waiters' = Tail(sem_waiters)
    /\ task_pc' = [task_pc EXCEPT ![i] = "running"]
    /\ UNCHANGED <<finished, ok_paths, errors, main_pc, ragVars, previewVars>>

\* TaskFinish releasing the permit only when generate_cv returned
TaskFinish_keepsPermitOnError(i) ==
    /\ task_pc[i] = "running"
    /\ \E outcome \in {"ok", "err"} :
          /\ task_pc' = [task_pc EXCEPT ![i] = outcome]
          /\ sem_value' = IF outcome = "ok" THEN sem_value + 1 ELSE sem_value
    /\ finished' = Append(finished, i)
    /\ UNCHANGED <<sem_waiters, ok_paths, errors, main_pc, ragVars, previewVars>>

\* lines 20-22: generate_cv returns a path or raises; leaving the `async with`
\* block releases the permit either way, and the task is finished
TaskFinish(i) ==
    /\ task_pc[i] = "running"
    /\ \E outcome \in {"ok", "err"} : task_pc' = [task_pc EXCEPT ![i] = outcome]
    /\ sem_value' = sem_value + 1
    /\ finished' = Append(finished, i)
    /\ UNCHANGED <<sem_waiters, ok_paths, errors, main_pc, ragVars, previewVars>>

\* lines 42-47: as_completed yields the next finished task; its result goes to
\* ok_paths, its exception to errors
MainCollect ==
    /\ main_pc = "loop"
    /\ finished # <<>>
    /\ IF task_pc[Head(finished)] = "ok"
          THEN ok_paths' = Append(ok_paths, Head(finished)) /\ UNCHANGED errors
          ELSE errors' = Append(errors, Head(finished)) /\ UNCHANGED ok_paths
    /\ finished' = Tail(finished)
    /\ UNCHANGED <<task_pc, sem_value, sem_waiters, main_pc, ragVars, previewVars>>

\* lines 42 and 49-56: as_completed has yielded every task; main logs and ends
MainFinish ==
    /\ main_pc = "loop"
    /\ Len(ok_paths) + Len(errors) = CV_TO_GENERATE
    /\ main_pc' = "done"
    /\ UNCHANGED <<task_pc, sem_value, sem_waiters, finished, ok_paths, errors,
                   ragVars, previewVars>>

\* lines 32-40: the semaphore, the tasks and the two lists as main makes them
GenStart ==
    /\ task_pc = [i \in Tasks |-> "created"]
    /\ sem_value = MAX_CONCURRENT
    /\ sem_waiters = <<>>
    /\ finished = <<>>
    /\ ok_paths = <<>>
    /\ errors = <<>>
    /\ main_pc = "loop"

\* -------------------------------------------------------- specifications
Init == RagInit /\ PreviewIdle /\ GenStart

\* the class under its direct callers
Next ==
    \/ StartRag /\ UNCHANGED <<previewVars, genVars>>
    \/ LoadOrCreateStep /\ UNCHANGED <<previewVars, genVars>>
    \/ \E t \in Callers : ApiQuery(t) /\ UNCHANGED <<previewVars, genVars>>
    \/ \E t \in Callers : ApiCustomQuery(t) /\ UNCHANGED <<previewVars, genVars>>
    \/ \E t \in Callers : QueryRun(t) /\ UNCHANGED <<previewVars, genVars>>
    \/ Crash /\ UNCHANGED <<previewVars, genVars>>

Spec == Init /\ [][Next]_vars

\* the class under direct callers one of which calls load_or_create_index again
NextReinit ==
    \/ Next
    \/ Reinit /\ UNCHANGED <<previewVars, genVars>>

SpecReinit == Init /\ [][NextReinit]_vars

\* the Streamlit application
NextApp ==
    \/ LoadOrCreateStep /\ UNCHANGED <<previewVars, genVars>>
    \/ \E s \in Sessions : InitRagStart(s) /\ UNCHANGED <<previewVars, genVars>>
    \/ \E s \in Sessions : CacheHit(s) /\ UNCHANGED <<previewVars, genVars>>
    \/ \E s \in Sessions : InitRagReturn(s) /\ UNCHANGED <<previewVars, genVars>>
    \/ \E s \in Sessions : InitRagRaise(s) /\ UNCHANGED <<previewVars, genVars>>
    \/ \E s \in Sessions : ChatInput(s) /\ UNCHANGED <<previewVars, genVars>>
    \/ \E s \in Sessions : ChatReply(s) /\ UNCHANGED <<previewVars, genVars>>
    \/ \E s \in Sessions : QueryRun(s) /\ UNCHANGED <<previewVars, genVars>>
    \/ Crash /\ UNCHANGED <<previewVars, genVars>>

SpecApp == Init /\ [][NextApp]_vars

\* _extract_sources over every response of at most MaxNodes chunk texts
InitPreview ==
    /\ RagInit
    /\ disk = NoDisk
    /\ GenStart
    /\ pv_nodes \in SeqsUpTo(ChunkTexts, MaxNodes)
    /\ pv_sources = <<>>

SpecPreview == InitPreview /\ [][ExtractSource]_vars

\* the batch generator
GenNext ==
    \/ \E i \in Tasks : TaskAcquire(i)
    \/ \E i \in Tasks : TaskWake(i)
    \/ \E i \in Tasks : TaskFinish(i)
    \/ MainCollect
    \/ MainFinish

InitGen == RagInit /\ disk = NoDisk /\ PreviewIdle /\ GenStart

SpecGen == InitGen /\ [][GenNext]_vars

\* ------------------------------------------------------------------ claims
Range(f) == {f[i] : i \in DOMAIN f}

IsPrefix(a, b) == Len(a) <= Len(b) /\ a = SubSeq(b, 1, Len(a))

BuildStages == <<"ingest", "build", "persist">>

\* the results the current instance has given so far are all not-ready errors
NothingServed ==
    \A t \in Threads : result[t].status \in {"none", "not_ready"}

\* C1: a query or custom_query call made while query_engine is None fails with
\* the not-ready error at once: it makes no network call, never goes on to
\* query an engine, and leaves index and query_engine as they were.
C1_NotReadyFailsFast ==
    /\ [](\A t \in Threads :
            /\ result[t].status = "not_ready" =>
                   result[t].net = 0 /\ result[t].sources = <<>>
            /\ call[t].pc = "run" => rag.query_engine # NoEngine)
    /\ [][\A t \in Threads :
            /\ (call[t].pc = "idle" /\ rag.query_engine = NoEngine
                    /\ call'[t] # call[t]) => call'[t].pc # "run"
            /\ (result'[t] # result[t] /\ result'[t].status = "not_ready") =>
                   (rag.query_engine = NoEngine /\ rag' = rag /\ disk' = disk)]_vars

\* C1 witness: custom_query was refused while load_or_create_index had already
\* set index but not yet query_engine
C1_Witness ==
    \E t \in Threads :
        /\ result[t].status = "not_ready"
        /\ result[t].kind = "custom"
        /\ rag.index # 0
        /\ loc_pc = "persist"

\* C2: when persisted storage exists, load_or_create_index only loads: no
\* ingestion, build or persist stage is started, the storage stays as found,
\* and after a failed load index and query_engine are None and the instance
\* has served no query.
C2_LoadFailureIsFinal ==
    loc_branch = "load" =>
        /\ stages = <<"load">>
        /\ disk = disk0
        /\ loc_pc = "raised" =>
               /\ rag.index = 0
               /\ rag.query_engine = NoEngine
               /\ NothingServed

\* C2 witness: the load of a store that does not load has failed, and a query
\* on that instance was refused
C2_Witness ==
    /\ loc_branch = "load"
    /\ loc_pc = "raised"
    /\ disk.corrupt
    /\ \E t \in Threads : result[t].status = "not_ready"

\* C3: without persisted storage the stages run in the order ingestion, build,
\* persist; persist starts only after every batch is embedded and index is
\* set; query_engine is set only after persist has written the whole store;
\* and after a failure in any stage query_engine is None and the instance has
\* served no query.
C3_BuildPipelineOrder ==
    loc_branch = "build" =>
        /\ IsPrefix(stages, BuildStages)
        /\ "persist" \in Range(stages) =>
               rag.index # 0 /\ loc_batches >= NumBatches
        /\ disk # disk0 => "persist" \in Range(stages)
        /\ rag.query_engine # NoEngine =>
               /\ loc_pc = "returned"
               /\ stages = BuildStages
               /\ DiskComplete(disk)
               /\ rag.query_engine.index = rag.index
        /\ loc_pc = "raised" => rag.query_engine = NoEngine /\ NothingServed

\* C3 witness: persist failed after the build had set index, and a query on
\* that instance was refused
C3_Witness ==
    /\ loc_branch = "build"
    /\ loc_pc = "raised"
    /\ stages = BuildStages
    /\ rag.index # 0
    /\ \E t \in Threads : result[t].status = "not_ready"

\* C4: after a crash during persist, a later start of the process (line 106)
\* finds persist_dir either absent or holding the whole store, never a part
\* of it.
C4_PersistIsAtomic ==
    (crash_in_persist /\ loc_pc = "L106") =>
        (~DiskExists(disk) \/ DiskComplete(disk))

\* C5: in one process init_rag's body runs at most once, and a session holds
\* a rag only when its initialisation has finished.
C5_InitialisedOnce ==
    /\ init_runs <= 1
    /\ \A s \in Sessions :
          sess_rag[s] => (loc_pc = "returned" /\ rag.query_engine # NoEngine)

\* C6: the preview of a chunk text longer than PreviewLen is its first
\* PreviewLen characters followed by the marker; the preview of a shorter text
\* is the text itself, without a marker.
C6_PreviewTruncation ==
    \A i \in 1..Len(pv_sources) :
        pv_sources[i] = IF Len(pv_nodes[i]) > PreviewLen
                           THEN SubSeq(pv_nodes[i], 1, PreviewLen) \o Marker
                           ELSE pv_nodes[i]

\* the last message of a session's chat
LastMessage(s) == messages[s][Len(messages[s])]

\* C7: a query that fails at query time leaves the instance as it was: the
\* chat gets the failure text and no sources, index and query_engine (and the
\* store) are unchanged, the cached instance stays READY, and every answer,
\* also one after a failure, is the answer of the default engine over the
\* instance's index.
C7_QueryFailureIsolated ==
    /\ [](\A s \in Sessions :
            (call[s].pc = "idle" /\ messages[s] # <<>>) =>
                /\ LastMessage(s).role = "assistant"
                /\ result[s].status # "ok" =>
                       /\ LastMessage(s).content.text = FailureMessage
                       /\ LastMessage(s).sources = <<>>
                /\ result[s].status = "ok" =>
                       /\ LastMessage(s).content =
                              [text |-> result[s].q, index |-> rag.index,
                               template |-> "default"]
                       /\ LastMessage(s).sources = <<rag.index>>)
    /\ [](cache =>
            /\ rag.index # 0
            /\ rag.query_engine = AsQueryEngine(rag.index, "default", DefaultTopK))
    /\ [][\A s \in Sessions :
            (result'[s] # result[s] /\ result'[s].status = "failed") =>
                (rag' = rag /\ disk' = disk /\ cache' = cache)]_vars

\* C7 witness: in one chat a query failed and the next one was answered from
\* the instance's index
C7_Witness ==
    \E s \in Sessions :
        /\ Len(messages[s]) = 4
        /\ messages[s][2].content.text = FailureMessage
        /\ messages[s][2].sources = <<>>
        /\ messages[s][4].content.index = rag.index
        /\ messages[s][4].sources # <<>>
        /\ rag.index # 0

\* a call with a truthy system_prompt
Templated(r) == r.kind = "custom" /\ Truthy(r.prompt)

C9_OneSnapshot ==
    \A t \in Threads :
        call[t].pc = "run" => rag.query_engine.index = rag.index

\* the tasks that hold a permit
Running == {i \in Tasks : task_pc[i] = "running"}

\* C10: at most MAX_CONCURRENT generate_cv calls are in progress; a permit is
\* held by a running task or free, also after failures; until main has ended
\* some step can be taken; and when main ends every task is in exactly one of
\* ok_paths and errors, once.
C10_BoundedAndCounted ==
    /\ Cardinality(Running) <= MAX_CONCURRENT
    /\ sem_value + Cardinality(Running) = MAX_CONCURRENT
    /\ main_pc # "done" => ENABLED GenNext
    /\ main_pc = "done" =>
          /\ Len(ok_paths) + Len(errors) = CV_TO_GENERATE
          /\ Range(ok_paths) \cup Range(errors) = Tasks
          /\ Range(ok_paths) \cap Range(errors) = {}
          /\ \A i \in Range(ok_paths) : task_pc[i] = "ok"
          /\ \A i \in Range(errors) : task_pc[i] = "err"

\* C10 witness: main has ended with failed and successful tasks, more of them
\* than there are permits
C10_Witness ==
    /\ main_pc = "done"
    /\ errors # <<>>
    /\ ok_paths # <<>>
    /\ CV_TO_GENERATE > MAX_CONCURRENT

====
